---- MODULE Spec2Model ----
(***************************************************************************)
(* Model of user/views.py: the registration, email verification, profile   *)
(* update and location lookup handlers, acting on the stored User,         *)
(* Profile, County, District and School records and on the outgoing mail.  *)
(***************************************************************************)
EXTENDS Integers, Sequences, FiniteSets, TLC

(* ------------------------------ bounds -------------------------------- *)
NumReq == 2
MaxTime == 2
MaxCounty == 2
MaxDistrict == 2
MaxSchool == 2

Emails == {"a@b.com", "c@d.com"}
Names == {"n0", "n1"}
Requests == 1..NumReq
CountyIds == 1..MaxCounty
DistrictIds == 1..MaxDistrict
SchoolIds == 1..MaxSchool

Anonymous == 0
NoUser == 0

(* --------------------- encoding of the identifier --------------------- *)
\* force_bytes(user.pk): the decimal digits of pk as ASCII bytes
RECURSIVE force_bytes(_)
force_bytes(n) ==
    IF n < 10 THEN <<48 + n>>
    ELSE force_bytes(n \div 10) \o <<48 + (n % 10)>>

\* urlsafe_base64_encode: base64 over the bytes, trailing '=' stripped.
\* A character is modelled by its index 0..63 in the url-safe alphabet.
RECURSIVE urlsafe_base64_encode(_)
urlsafe_base64_encode(b) ==
    IF Len(b) = 0 THEN <<>>
    ELSE IF Len(b) = 1 THEN <<b[1] \div 4, (b[1] % 4) * 16>>
    ELSE IF Len(b) = 2 THEN
        <<b[1] \div 4, (b[1] % 4) * 16 + (b[2] \div 16), (b[2] % 16) * 4>>
    ELSE <<b[1] \div 4, (b[1] % 4) * 16 + (b[2] \div 16),
           (b[2] % 16) * 4 + (b[3] \div 64), b[3] % 64>>
         \o urlsafe_base64_encode(SubSeq(b, 4, Len(b)))

Failed == [ok |-> FALSE, val |-> <<>>]
Decoded(v) == [ok |-> TRUE, val |-> v]

\* the bytes of whole 4-character groups
RECURSIVE B64Groups(_)
B64Groups(s) ==
    IF Len(s) < 4 THEN <<>>
    ELSE <<s[1] * 4 + (s[2] \div 16),
           (s[2] % 16) * 16 + (s[3] \div 4),
           (s[3] % 4) * 64 + s[4]>>
         \o B64Groups(SubSeq(s, 5, Len(s)))

\* urlsafe_base64_decode: pads with len % 4 '=' characters and decodes; one
\* character left over is a padding error (ValueError); the unused low bits
\* of the last character are dropped without a check.
urlsafe_base64_decode(s) ==
    LET r == Len(s) % 4
        full == B64Groups(SubSeq(s, 1, Len(s) - r))
        t == SubSeq(s, Len(s) - r + 1, Len(s))
    IN  IF r = 1 THEN Failed
        ELSE IF r = 0 THEN Decoded(full)
        ELSE IF r = 2 THEN Decoded(full \o <<t[1] * 4 + (t[2] \div 16)>>)
        ELSE Decoded(full \o <<t[1] * 4 + (t[2] \div 16),
                               (t[2] % 16) * 16 + (t[3] \div 4)>>)

\* bytes.decode(): a lone byte >= 128 is not UTF-8 (UnicodeDecodeError, a
\* ValueError); ASCII bytes decode to themselves
Utf8Decode(b) ==
    IF \E i \in 1..Len(b) : b[i] >= 128 THEN Failed ELSE Decoded(b)

RECURSIVE DigitsValue(_)
DigitsValue(c) ==
    IF Len(c) = 0 THEN 0
    ELSE DigitsValue(SubSeq(c, 1, Len(c) - 1)) * 10 + (c[Len(c)] - 48)

\* the pk a string names in User.objects.get(pk=uid): a string that is not a
\* number raises ValueError
ParsePk(c) ==
    IF Len(c) > 0 /\ \A i \in 1..Len(c) : c[i] >= 48 /\ c[i] <= 57
    THEN [ok |-> TRUE, val |-> DigitsValue(c)]
    ELSE [ok |-> FALSE, val |-> 0]

(* ------------------------------- state -------------------------------- *)
VARIABLES
    users,      \* User rows, users[pk] = [email, verified_email, first_name]
    profiles,   \* Profile rows, profiles[pk] = [user, school]
    outbox,     \* mails handed to user.email_user, in order
    counties,   \* the pks of the County rows
    districts,  \* District rows, districts[pk] = [county, name]
    schools,    \* School rows, schools[pk] = [district, label]
    now,        \* the clock the token generator reads
    reqs,       \* the register requests in flight, one per worker
    last,       \* the request handled by the latest step and its response
    pre         \* the stored records before the latest step

vars == <<users, profiles, outbox, counties, districts, schools, now, reqs,
          last, pre>>

Store == [users |-> users, profiles |-> profiles, outbox |-> outbox,
          counties |-> counties, districts |-> districts, schools |-> schools]

NoToken == [ts |-> 0, mac |-> <<"none", 0, 0>>]

NoLast == [op |-> "none", req |-> 0, caller |-> Anonymous, method |-> "GET",
           uidb64 |-> <<>>, token |-> NoToken, name |-> "n0", school |-> 0,
           formsOk |-> FALSE, pk |-> 0, resp |-> "none", flash |-> "none",
           built |-> FALSE, result |-> <<>>]

IdleReq == [pc |-> "idle", caller |-> Anonymous, method |-> "GET",
            email |-> "", userOk |-> FALSE, profileOk |-> FALSE, school |-> 0,
            dup |-> FALSE, user |-> NoUser, resp |-> "none", flash |-> "none",
            formErr |-> FALSE, nUsers |-> 0, nProfiles |-> 0, nMails |-> 0]

(* --------------------- records outside this file ---------------------- *)
EmailTaken(us, email) == \E i \in 1..Len(us) : us[i].email = email

\* UserCreationForm.is_valid(): the other fields validate and the model
\* form's unique check finds no stored User with the email
UserFormIsValid(us, email, fieldsOk) == fieldsOk /\ ~EmailTaken(us, email)

\* user_form.has_error('email', code='unique')
HasUniqueError(us, email) == EmailTaken(us, email)

NoUniqueEmail(us, email) == TRUE

\* the unique index on User.email: an INSERT of a stored email raises
\* IntegrityError
UniqueEmail(us, email) == ~EmailTaken(us, email)

NewUser(email) == [email |-> email, verified_email |-> FALSE, first_name |-> "n0"]

\* profile_form.save(user) of ProfileCreationForm: one Profile of the user
NewProfile(user, school) == [user |-> user, school |-> school]

\* the Profile row of request.user.profile, 0 when the user has none
ProfileOf(ps, user) ==
    IF \E i \in 1..Len(ps) : ps[i].user = user
    THEN CHOOSE i \in 1..Len(ps) : ps[i].user = user
    ELSE 0

\* settings.PASSWORD_RESET_TIMEOUT in clock ticks
TokenTimeout == 1

\* the keyed hash over the user's pk and the timestamp
Hmac(pk, ts) == <<"hmac", pk, ts>>

\* email_verification_token_generator.make_token(user)
make_token(pk, t) == [ts |-> t, mac |-> Hmac(pk, t)]

\* email_verification_token_generator.check_token(user, token)
check_token(pk, token, t) ==
    /\ pk # NoUser
    /\ token.mac = Hmac(pk, token.ts)
    /\ t - token.ts <= TokenTimeout

(* ------------------------------ register ------------------------------ *)
FormsValidOr(uv, pv) == uv \/ pv

\* line 25: user_form.is_valid() and profile_form.is_valid()
FormsValid(uv, pv) == uv /\ pv

\* lines 46-59: the mail send_verification_email hands to user.email_user
VerificationMail(us, pk, t) ==
    [to |-> us[pk].email,
     uidb64 |-> urlsafe_base64_encode(force_bytes(pk)),
     token |-> make_token(pk, t)]

\* a finished request's record is kept for one step, as the response, and
\* is gone once any handler takes its next step
Delivered ==
    [q \in Requests |-> IF reqs[q].pc = "done" THEN IdleReq ELSE reqs[q]]

RegisterStep(r) == [NoLast EXCEPT !.op = "register", !.req = r]

\* lines 18-19: an authenticated caller is sent to the profile update
RegisterAuthenticated(r, caller, method, email) ==
    /\ reqs[r].pc \in {"idle", "done"}
    /\ caller \in 1..Len(users)
    /\ reqs' = [Delivered EXCEPT ![r] =
          [IdleReq EXCEPT !.pc = "done", !.caller = caller, !.method = method,
                          !.resp = "redirect_profile_update",
                          !.email = IF method = "POST" THEN email ELSE "",
                          !.dup = method = "POST" /\ EmailTaken(users, email)]]
    /\ last' = RegisterStep(r)
    /\ pre' = Store
    /\ UNCHANGED <<users, profiles, outbox, counties, districts, schools, now>>

\* lines 35-43: GET renders the empty forms
RegisterGet(r) ==
    /\ reqs[r].pc \in {"idle", "done"}
    /\ reqs' = [Delivered EXCEPT ![r] =
          [IdleReq EXCEPT !.pc = "done", !.resp = "render"]]
    /\ last' = RegisterStep(r)
    /\ pre' = Store
    /\ UNCHANGED <<users, profiles, outbox, counties, districts, schools, now>>

\* lines 21-25, 32-34 and 42-43: POST by an unauthenticated caller, up to the
\* decision to save
RegisterPost(r, email, fieldsOk, profileOk, school) ==
    /\ reqs[r].pc \in {"idle", "done"}
    /\ school \in DOMAIN schools
    /\ LET uv == UserFormIsValid(users, email, fieldsOk)
           base == [IdleReq EXCEPT !.method = "POST", !.email = email,
                                   !.userOk = uv, !.profileOk = profileOk,
                                   !.dup = EmailTaken(users, email)]
       IN  reqs' = [Delivered EXCEPT ![r] =
             IF FormsValid(uv, profileOk)
             THEN [base EXCEPT !.pc = "save_user", !.school = school]
             ELSE [base EXCEPT !.pc = "done", !.resp = "render",
                               !.formErr = TRUE,
                               !.flash = IF HasUniqueError(users, email)
                                         THEN "email_exists" ELSE "none"]]
    /\ last' = RegisterStep(r)
    /\ pre' = Store
    /\ UNCHANGED <<users, profiles, outbox, counties, districts, schools, now>>

\* line 26: user = user_form.save(); an IntegrityError leaves the view
RegisterSaveUser(r) ==
    /\ reqs[r].pc = "save_user"
    /\ IF UniqueEmail(users, reqs[r].email)
       THEN /\ users' = Append(users, NewUser(reqs[r].email))
            /\ reqs' = [Delivered EXCEPT ![r].pc = "save_profile",
                                         ![r].user = Len(users) + 1,
                                         ![r].nUsers = @ + 1]
       ELSE /\ reqs' = [Delivered EXCEPT ![r].pc = "done",
                                         ![r].resp = "error500"]
            /\ UNCHANGED users
    /\ last' = RegisterStep(r)
    /\ pre' = Store
    /\ UNCHANGED <<profiles, outbox, counties, districts, schools, now>>

\* line 27: profile_form.save(user)
RegisterSaveProfile(r) ==
    /\ reqs[r].pc = "save_profile"
    /\ profiles' = Append(profiles, NewProfile(reqs[r].user, reqs[r].school))
    /\ reqs' = [Delivered EXCEPT ![r].pc = "send_email",
                                 ![r].nProfiles = @ + 1]
    /\ last' = RegisterStep(r)
    /\ pre' = Store
    /\ UNCHANGED <<users, outbox, counties, districts, schools, now>>

\* line 27, when the save raises: the exception leaves the view
RegisterSaveProfileFails(r) ==
    /\ reqs[r].pc = "save_profile"
    /\ reqs' = [Delivered EXCEPT ![r].pc = "done", ![r].resp = "error500"]
    /\ last' = RegisterStep(r)
    /\ pre' = Store
    /\ UNCHANGED <<users, profiles, outbox, counties, districts, schools, now>>

\* lines 29-31: send_verification_email(user), the flash and the redirect
RegisterSendEmail(r) ==
    /\ reqs[r].pc = "send_email"
    /\ outbox' = Append(outbox, VerificationMail(users, reqs[r].user, now))
    /\ reqs' = [Delivered EXCEPT ![r].pc = "done", ![r].nMails = @ + 1,
                                 ![r].resp = "redirect_login",
                                 ![r].flash = "email_sent"]
    /\ last' = RegisterStep(r)
    /\ pre' = Store
    /\ UNCHANGED <<users, profiles, counties, districts, schools, now>>

\* line 29, when user.email_user raises: the exception leaves the view
RegisterSendEmailFails(r) ==
    /\ reqs[r].pc = "send_email"
    /\ reqs' = [Delivered EXCEPT ![r].pc = "done", ![r].resp = "error500"]
    /\ last' = RegisterStep(r)
    /\ pre' = Store
    /\ UNCHANGED <<users, profiles, outbox, counties, districts, schools, now>>

\* the school every registration in the model picks
RegisterSchools == {1}

RegisterNext(R) ==
    \/ \E r \in R, caller \in 1..Len(users), method \in {"GET", "POST"},
          email \in Emails : RegisterAuthenticated(r, caller, method, email)
    \/ \E r \in R : RegisterGet(r)
    \/ \E r \in R, email \in Emails, fieldsOk \in BOOLEAN,
          profileOk \in BOOLEAN, school \in RegisterSchools :
            RegisterPost(r, email, fieldsOk, profileOk, school)
    \/ \E r \in R : RegisterSaveUser(r)
    \/ \E r \in R : RegisterSaveProfile(r)
    \/ \E r \in R : RegisterSaveProfileFails(r)
    \/ \E r \in R : RegisterSendEmail(r)
    \/ \E r \in R : RegisterSendEmailFails(r)

(* ------------------------------- verify ------------------------------- *)
\* lines 63-67: the pk of the User the identifier names, NoUser on a decode
\* or lookup failure
LookupUser(us, uidb64) ==
    LET d == urlsafe_base64_decode(uidb64)
        u == IF d.ok THEN Utf8Decode(d.val) ELSE Failed
        p == IF u.ok THEN ParsePk(u.val) ELSE [ok |-> FALSE, val |-> 0]
    IN  IF p.ok /\ p.val \in 1..Len(us) THEN p.val ELSE NoUser

AcceptsAnyToken(pk, token, t) == pk # NoUser

\* line 69: email_verification_token_generator.check_token(user, token)
TokenAccepted(pk, token, t) == check_token(pk, token, t)

SaveNothing(us, pk) == us

\* lines 70-71: user.verified_email = True; user.save()
SaveVerified(us, pk) == [us EXCEPT ![pk].verified_email = TRUE]

Forged == <<"forged", 0, 0>>

IssuedTokens == {outbox[i].token : i \in 1..Len(outbox)}

\* the tokens a caller can present: the mailed ones, a mailed one with its
\* timestamp set to the present or its hash altered, and one made up
TokenCandidates ==
    IssuedTokens
    \cup {[t EXCEPT !.ts = now] : t \in IssuedTokens}
    \cup {[t EXCEPT !.mac = Forged] : t \in IssuedTokens}
    \cup {[ts |-> 0, mac |-> Forged]}

\* identifiers: of the stored pks and of the next one; "M" (one character),
\* "MR" (decodes like "MQ"), "gA" (byte 128), "YQ" (the letter a)
UidCandidates ==
    {urlsafe_base64_encode(force_bytes(p)) : p \in 1..(Len(users) + 1)}
    \cup {<<12>>, <<12, 17>>, <<32, 0>>, <<24, 16>>}

\* lines 62-77
Verify(uidb64, token) ==
    LET user == LookupUser(users, uidb64)
        ok == TokenAccepted(user, token, now)
    IN  /\ users' = IF ok THEN SaveVerified(users, user) ELSE users
        /\ last' = [NoLast EXCEPT !.op = "verify", !.uidb64 = uidb64,
                                  !.token = token, !.pk = user,
                                  !.resp = "redirect_home",
                                  !.flash = IF ok THEN "verified"
                                            ELSE "verify_failed"]
        /\ pre' = Store
        /\ reqs' = Delivered
        /\ UNCHANGED <<profiles, outbox, counties, districts, schools, now>>

\* the clock advances
Tick ==
    /\ now < MaxTime
    /\ now' = now + 1
    /\ last' = [NoLast EXCEPT !.op = "tick"]
    /\ pre' = Store
    /\ reqs' = Delivered
    /\ UNCHANGED <<users, profiles, outbox, counties, districts, schools>>

(* --------------------------- profile_update --------------------------- *)
LoginNotRequired(caller) == TRUE

\* line 80: @login_required lets only an authenticated caller into the view
LoginRequired(caller) == caller # Anonymous

\* lines 80-103
ProfileUpdate(caller, method, name, nameOk, school, profileOk) ==
    /\ caller \in {Anonymous} \cup (1..Len(users))
    /\ school \in DOMAIN schools
    /\ LET p == ProfileOf(profiles, caller)
           req == [NoLast EXCEPT !.op = "profile_update", !.caller = caller,
                                 !.method = method]
       IN  IF ~LoginRequired(caller)
           THEN /\ last' = [req EXCEPT !.resp = "redirect_login"]
                /\ UNCHANGED profiles
           ELSE IF p = 0
           THEN \* line 83: request.user.profile raises
                /\ last' = [req EXCEPT !.resp = "error500"]
                /\ UNCHANGED profiles
           ELSE IF method = "POST" /\ nameOk /\ profileOk
           THEN \* line 91: profile_form.save() and nothing else
                /\ profiles' = [profiles EXCEPT ![p].school = school]
                /\ last' = [req EXCEPT !.resp = "redirect_profile_detail",
                                       !.flash = "saved", !.built = TRUE,
                                       !.formsOk = TRUE, !.name = name,
                                       !.school = school, !.pk = p]
           ELSE /\ last' = [req EXCEPT !.resp = "render", !.built = TRUE,
                                       !.pk = p]
                /\ UNCHANGED profiles
    /\ pre' = Store
    /\ reqs' = Delivered
    /\ UNCHANGED <<users, outbox, counties, districts, schools, now>>

(* ------------------------------ lookups ------------------------------- *)
\* the members of S up to n, in ascending order: the rows of a queryset
RECURSIVE Ascending(_, _)
Ascending(S, n) ==
    IF n = 0 THEN <<>>
    ELSE Ascending(S, n - 1) \o (IF n \in S THEN <<n>> ELSE <<>>)

DistrictValues(ds, ids) ==
    [i \in 1..Len(ids) |-> [pk |-> ids[i], name |-> ds[ids[i]].name]]

SchoolValues(ss, ids) ==
    [i \in 1..Len(ids) |-> [value |-> ids[i], label |-> ss[ids[i]].label]]

AllDistricts(ds, county) ==
    DistrictValues(ds, Ascending(DOMAIN ds, MaxDistrict))

\* line 114: District.objects.filter(county=county).values('pk', 'name')
DistrictsOfCounty(ds, county) ==
    DistrictValues(ds, Ascending({d \in DOMAIN ds : ds[d].county = county},
                                 MaxDistrict))

SchoolsOfCountyOf(ss, ds, district) ==
    SchoolValues(ss, Ascending({x \in DOMAIN ss :
                     ds[ss[x].district].county = ds[district].county},
                               MaxSchool))

\* lines 135-138: School.objects.filter(district=district) as value/label
SchoolsOfDistrict(ss, ds, district) ==
    SchoolValues(ss, Ascending({x \in DOMAIN ss : ss[x].district = district},
                               MaxSchool))

\* lines 122-127: the schools of the districts of the county
SchoolsOfCounty(ss, ds, county) ==
    SchoolValues(ss, Ascending({x \in DOMAIN ss :
                     ds[ss[x].district].county = county}, MaxSchool))

\* get_object_or_404 and JsonResponse: 404 for a missing parent, else the list
Lookup(op, pk, found, result) ==
    /\ last' = [NoLast EXCEPT !.op = op, !.pk = pk,
                              !.resp = IF found THEN "200" ELSE "404",
                              !.result = IF found THEN result ELSE <<>>]
    /\ pre' = Store
    /\ UNCHANGED <<users, profiles, outbox, counties, districts, schools, now,
                   reqs>>

\* lines 111-116
district_by_county(pk) ==
    Lookup("district_by_county", pk, pk \in counties,
           DistrictsOfCounty(districts, pk))

\* lines 119-129
school_by_county(pk) ==
    Lookup("school_by_county", pk, pk \in counties,
           SchoolsOfCounty(schools, districts, pk))

\* lines 132-140
school_by_district(pk) ==
    Lookup("school_by_district", pk, pk \in DOMAIN districts,
           SchoolsOfDistrict(schools, districts, pk))

(* ---------------------------- specification --------------------------- *)
RefCounties == CountyIds
RefDistricts == [d \in DistrictIds |-> [county |-> ((d - 1) % MaxCounty) + 1, name |-> d]]
RefSchools == [s \in SchoolIds |-> [district |-> ((s - 1) % MaxDistrict) + 1, label |-> s]]

Init ==
    /\ users = <<>>
    /\ profiles = <<>>
    /\ outbox = <<>>
    /\ counties = RefCounties
    /\ districts = RefDistricts
    /\ schools = RefSchools
    /\ now = 0
    /\ reqs = [r \in Requests |-> IdleReq]
    /\ last = NoLast
    /\ pre = [users |-> <<>>, profiles |-> <<>>, outbox |-> <<>>,
              counties |-> RefCounties, districts |-> RefDistricts,
              schools |-> RefSchools]

Next == RegisterNext(Requests)

\* concurrent registrations
Spec == Init /\ [][Next]_vars

VerifyNext ==
    \/ RegisterNext({1})
    \/ Tick
    \/ \E uidb64 \in UidCandidates, token \in TokenCandidates :
          Verify(uidb64, token)

\* registrations, the clock and verification links
VerifySpec == Init /\ [][VerifyNext]_vars

ProfileNext ==
    \/ RegisterNext({1})
    \/ \E caller \in 0..Len(users), method \in {"GET", "POST"}, name \in Names,
          nameOk \in BOOLEAN, school \in SchoolIds, profileOk \in BOOLEAN :
            ProfileUpdate(caller, method, name, nameOk, school, profileOk)

\* registrations and profile updates
ProfileSpec == Init /\ [][ProfileNext]_vars

\* any reference data: a District names a stored County, a School a stored
\* District
LookupInit ==
    /\ users = <<>>
    /\ profiles = <<>>
    /\ outbox = <<>>
    /\ counties \in SUBSET CountyIds
    /\ \E D \in SUBSET DistrictIds : \E f \in [D -> counties] :
          districts = [d \in D |-> [county |-> f[d], name |-> d]]
    /\ \E S \in SUBSET SchoolIds : \E g \in [S -> DOMAIN districts] :
          schools = [s \in S |-> [district |-> g[s], label |-> s]]
    /\ now = 0
    /\ reqs = [r \in Requests |-> IdleReq]
    /\ last = NoLast
    /\ pre = Store

LookupNext ==
    \/ \E pk \in 0..(MaxCounty + 1) : district_by_county(pk)
    \/ \E pk \in 0..(MaxCounty + 1) : school_by_county(pk)
    \/ \E pk \in 0..(MaxDistrict + 1) : school_by_district(pk)

\* the lookup endpoints over any reference data
LookupSpec == LookupInit /\ [][LookupNext]_vars

(* ------------------------------- claims ------------------------------- *)
Done(r) == reqs[r].pc = "done"

AnonymousPost(r) == reqs[r].caller = Anonymous /\ reqs[r].method = "POST"

RowsUnchanged ==
    /\ users = pre.users
    /\ profiles = pre.profiles
    /\ outbox = pre.outbox

CreatedNothing(r) ==
    reqs[r].nUsers = 0 /\ reqs[r].nProfiles = 0 /\ reqs[r].nMails = 0

ProfilesOfUser(pk) == {i \in 1..Len(profiles) : profiles[i].user = pk}

MailsTo(email) == {i \in 1..Len(outbox) : outbox[i].to = email}

\* C1, as stated: every POST to register whose email is that of a stored User
\* ends with the form re-rendered with an error, and creates no User, no
\* Profile and no mail.
C1_AsStated ==
    \A r \in Requests :
        (Done(r) /\ reqs[r].method = "POST" /\ reqs[r].dup)
        => /\ reqs[r].resp = "render"
           /\ reqs[r].formErr
           /\ CreatedNothing(r)
           /\ RowsUnchanged

\* C1, amended: every POST to register by an unauthenticated caller whose
\* email is that of a stored User ends with the form re-rendered with an
\* error, and creates no User, no Profile and no mail.
C1_DuplicateEmailRejected ==
    \A r \in Requests :
        (Done(r) /\ AnonymousPost(r) /\ reqs[r].dup)
        => /\ reqs[r].resp = "render"
           /\ reqs[r].formErr
           /\ CreatedNothing(r)
           /\ RowsUnchanged

C1_Witness ==
    \E r \in Requests :
        /\ Done(r) /\ AnonymousPost(r) /\ reqs[r].dup
        /\ reqs[r].profileOk
        /\ reqs[r].resp = "render"
        /\ EmailTaken(users, reqs[r].email)

\* C2: every POST to register by an unauthenticated caller in which both
\* forms validate creates exactly one User, exactly one Profile linked to it,
\* sends exactly one verification mail to it and redirects to login.
C2_ValidPostCreatesAll ==
    \A r \in Requests :
        (Done(r) /\ AnonymousPost(r) /\ reqs[r].userOk /\ reqs[r].profileOk)
        => /\ reqs[r].resp = "redirect_login"
           /\ reqs[r].nUsers = 1
           /\ reqs[r].nProfiles = 1
           /\ reqs[r].nMails = 1
           /\ reqs[r].user \in 1..Len(users)
           /\ users[reqs[r].user].email = reqs[r].email
           /\ Cardinality(ProfilesOfUser(reqs[r].user)) = 1
           /\ Cardinality(MailsTo(reqs[r].email)) = 1

\* C9: under every interleaving of register POSTs with the same email no two
\* User rows hold that email, a resubmission creates nothing, and at most one
\* User, one Profile and one verification mail exist for the email.
C9_NoDuplicateEmail ==
    /\ \A i, j \in 1..Len(users) : users[i].email = users[j].email => i = j
    /\ \A e \in Emails : Cardinality(MailsTo(e)) <= 1
    /\ \A pk \in 1..Len(users) : Cardinality(ProfilesOfUser(pk)) <= 1
    /\ \A r \in Requests :
          (Done(r) /\ AnonymousPost(r) /\ reqs[r].dup) => CreatedNothing(r)
    /\ \A r \in Requests :
          (Done(r) /\ AnonymousPost(r) /\ reqs[r].resp = "error500"
                   /\ reqs[r].user = NoUser) => CreatedNothing(r)

\* two requests validated the same email before either saved; the second
\* save_user failed
C9_Witness ==
    \E r \in Requests :
        /\ Done(r) /\ AnonymousPost(r)
        /\ reqs[r].userOk /\ reqs[r].profileOk /\ ~reqs[r].dup
        /\ reqs[r].resp = "error500" /\ reqs[r].user = NoUser
        /\ EmailTaken(users, reqs[r].email)

\* C10: once a register request has finished, in any outcome, the User it
\* created has exactly one Profile, and no verification mail went to a User
\* without a Profile.
C10_UserHasProfile ==
    /\ \A r \in Requests :
          (Done(r) /\ reqs[r].user # NoUser)
          => Cardinality(ProfilesOfUser(reqs[r].user)) = 1
    /\ \A i \in 1..Len(outbox) : \A pk \in 1..Len(users) :
          users[pk].email = outbox[i].to => ProfilesOfUser(pk) # {}

(* verify *)
IssuedFor(pk, token) ==
    \E i \in 1..Len(outbox) :
        outbox[i].to = users[pk].email /\ outbox[i].token = token

Expired(token) == now - token.ts > TokenTimeout

\* the link is bad: the identifier names no stored User, or the token was
\* not mailed to the identified User (altered, made up or another User's),
\* or it has expired
BadLink ==
    LET pk == LookupUser(pre.users, last.uidb64)
    IN  \/ pk = NoUser
        \/ last.token \notin IssuedTokens
        \/ ~IssuedFor(pk, last.token)
        \/ Expired(last.token)

\* C3: verify with a tampered or expired token, a token not issued for the
\* identified user, or an identifier that does not decode or names no stored
\* User sets no verified_email flag, changes no record and flashes failure.
C3_BadLinkChangesNothing ==
    (last.op = "verify" /\ BadLink)
    => /\ RowsUnchanged
       /\ last.flash = "verify_failed"
       /\ last.resp = "redirect_home"

\* the mailed link of a stored User, presented after the token expired
C3_Witness ==
    /\ last.op = "verify"
    /\ last.pk # NoUser
    /\ IssuedFor(last.pk, last.token)
    /\ Expired(last.token)
    /\ last.flash = "verify_failed"

\* the mailed link: the identifier and the token of one verification mail
MailedLink(i) ==
    /\ outbox[i].uidb64 = last.uidb64
    /\ outbox[i].token = last.token
    /\ ~Expired(last.token)

\* C4: verify with the identifier and the unexpired, unmodified token of a
\* verification mail sets the addressed User's verified_email and changes no
\* other User.
C4_MailedLinkVerifies ==
    \A i \in 1..Len(outbox) :
        (last.op = "verify" /\ MailedLink(i))
        => /\ Len(users) = Len(pre.users)
           /\ \A pk \in 1..Len(users) :
                 IF users[pk].email = outbox[i].to
                 THEN users[pk] = [pre.users[pk] EXCEPT !.verified_email = TRUE]
                 ELSE users[pk] = pre.users[pk]
           /\ \E pk \in 1..Len(users) : users[pk].email = outbox[i].to

C4_Witness ==
    \E i \in 1..Len(outbox) : \E pk, other \in 1..Len(users) :
        /\ last.op = "verify" /\ MailedLink(i)
        /\ users[pk].email = outbox[i].to
        /\ ~pre.users[pk].verified_email
        /\ users[pk].verified_email
        /\ other # pk /\ ~users[other].verified_email
        /\ last.token.ts < now

(* profile_update *)
\* C5: a POST to profile_update by an authenticated user in which both forms
\* validate persists the submitted name of the User and the submitted fields
\* of the Profile and redirects to the detail page of the profile.
C5_UpdatePersistsBoth ==
    (last.op = "profile_update" /\ last.caller # Anonymous
        /\ last.method = "POST" /\ last.formsOk)
    => /\ last.resp = "redirect_profile_detail"
       /\ last.pk = ProfileOf(profiles, last.caller)
       /\ profiles[last.pk].school = last.school
       /\ users[last.caller].first_name = last.name

\* C6: profile_update by an unauthenticated caller, GET or POST, redirects
\* before any form is built and changes no User and no Profile.
C6_AnonymousRejected ==
    (last.op = "profile_update" /\ last.caller = Anonymous)
    => /\ last.resp = "redirect_login"
       /\ ~last.built
       /\ RowsUnchanged

C6_Witness ==
    /\ last.op = "profile_update" /\ last.caller = Anonymous
    /\ last.method = "POST"
    /\ Len(profiles) > 0
    /\ last.resp = "redirect_login"

(* lookups *)
\* C7: for the pk of a stored County district_by_county returns one pk/name
\* entry for each District of that County and no other entry; for any other
\* pk it returns 404 and no list.
C7_DistrictsOfCountyOnly ==
    last.op = "district_by_county"
    => IF last.pk \in counties
       THEN /\ last.resp = "200"
            /\ \A i \in 1..Len(last.result) :
                  /\ last.result[i].pk \in DOMAIN districts
                  /\ districts[last.result[i].pk].county = last.pk
                  /\ last.result[i].name = districts[last.result[i].pk].name
            /\ \A d \in DOMAIN districts :
                  districts[d].county = last.pk
                  => Cardinality({i \in 1..Len(last.result) :
                                     last.result[i].pk = d}) = 1
       ELSE last.resp = "404" /\ last.result = <<>>

C7_Witness ==
    /\ last.op = "district_by_county"
    /\ last.resp = "200"
    /\ Len(last.result) > 0
    /\ \E d \in DOMAIN districts : districts[d].county # last.pk

\* C8: for the pk of a stored District school_by_district returns one
\* value/label entry for each School of that District and no other entry,
\* and changes no stored record.
C8_SchoolsOfDistrictOnly ==
    (last.op = "school_by_district" /\ last.pk \in DOMAIN districts)
    => /\ last.resp = "200"
       /\ \A i \in 1..Len(last.result) :
             /\ last.result[i].value \in DOMAIN schools
             /\ schools[last.result[i].value].district = last.pk
             /\ last.result[i].label = schools[last.result[i].value].label
       /\ \A x \in DOMAIN schools :
             schools[x].district = last.pk
             => Cardinality({i \in 1..Len(last.result) :
                                last.result[i].value = x}) = 1
       /\ Store = pre

C8_Witness ==
    /\ last.op = "school_by_district"
    /\ last.resp = "200"
    /\ Len(last.result) > 0
    /\ \E x \in DOMAIN schools :
          /\ schools[x].district # last.pk
          /\ districts[schools[x].district].county = districts[last.pk].county

====
